---- MODULE Spec2Model ----
(***************************************************************************)
(* A model of the FFI bridge of the ort crate: the CUDA execution provider *)
(* (src/execution_providers/cuda.rs) and the custom operator kernel bridge *)
(* (src/operator/kernel.rs).  The native runtime is the environment: every *)
(* native call draws its status and its out-values nondeterministically.   *)
(***************************************************************************)
EXTENDS Integers, Sequences, FiniteSets, TLC

VARIABLES
    fa, fb,          \* two CUDAAttentionBackend values under combination
    backend,         \* cfg(any(feature = "load-dynamic", feature = "cuda"))
    options,         \* CUDAExecutionProvider.options: sequence of <<key, value>>
    last_set,        \* history: key -> value last handed to a setter
    overwritten,     \* history: some setter call replaced an earlier value
    trace,           \* history: the setter calls so far, <<name, argument>>
    session_in,      \* history: the session builder as the last register got it
    session,         \* providers attached to the session builder, in order
    handles,         \* KernelAttributes handles: sequence of records
    next_ptr,        \* next OrtKernelInfo address CopyKernelInfo hands out
    scratch,         \* ScratchBuffer values: sequence of records
    op,              \* the bridge operation whose result its caller holds
    env,             \* what the native runtime answered that operation
    log,             \* the native calls that operation made, in order
    result,          \* what the operation returned to its caller
    pf               \* the par_for call in flight

vars == <<fa, fb, backend, options, last_set, overwritten, trace, session_in,
          session, handles, next_ptr, scratch, op, env, log, result, pf>>

----------------------------------------------------------------------------
(* CUDAAttentionBackend: a u32 bitset.                                     *)

FLASH_ATTENTION == 1
EFFICIENT_ATTENTION == 2
TRT_FUSED_ATTENTION == 4
CUDNN_FLASH_ATTENTION == 8
MATH == 16
TRT_FLASH_ATTENTION == 32
TRT_CROSS_ATTENTION == 64
TRT_CAUSAL_ATTENTION == 128
LEAN_ATTENTION == 256

NamedFlags ==
    { FLASH_ATTENTION, EFFICIENT_ATTENTION, TRT_FUSED_ATTENTION,
      CUDNN_FLASH_ATTENTION, MATH, TRT_FLASH_ATTENTION, TRT_CROSS_ATTENTION,
      TRT_CAUSAL_ATTENTION, LEAN_ATTENTION }

\* The integer | of two naturals, bit by bit.
RECURSIVE bit_or(_, _)
bit_or(x, y) ==
    IF x = 0 /\ y = 0 THEN 0
    ELSE (IF x % 2 = 1 \/ y % 2 = 1 THEN 1 ELSE 0) + 2 * bit_or(x \div 2, y \div 2)

\* A slip of + for |.
bitor_Add(self, rhs) == rhs + self

\* impl BitOr: Self(rhs.0 | self.0).  Every value is below 2^9, so the u32
\* operation never wraps.
bitor(self, rhs) == bit_or(rhs, self)

none == 0

all ==
    bitor(bitor(bitor(bitor(bitor(bitor(bitor(FLASH_ATTENTION,
        EFFICIENT_ATTENTION), TRT_FUSED_ATTENTION), CUDNN_FLASH_ATTENTION),
        MATH), TRT_FLASH_ATTENTION), TRT_CROSS_ATTENTION), TRT_CAUSAL_ATTENTION)

----------------------------------------------------------------------------
(* Native statuses and the results the bridge hands to its callers.        *)

OK == "OK"
Status == { OK, "ORT_FAIL", "ORT_INVALID_ARGUMENT" }
Void == "void"

\* One native call as the log records it.
NativeCall(name, args, status) == [call |-> name, args |-> args, status |-> status]

\* The status of the k-th native call of an operation in environment e: the
\* call numbered e.fail_at reports e.status, every other call succeeds.
St(e, k) == IF k = e.fail_at THEN e.status ELSE OK

\* ortsys![unsafe name(args)]: the call joins the log of the operation.
Call(l, name, args, e) == Append(l, NativeCall(name, args, St(e, Len(l) + 1)))

Last(l) == l[Len(l)]
Bad(l) == Last(l).status # OK
Ret(l, r) == [log |-> l, result |-> r]

Ok(v) == [kind |-> "Ok", value |-> v]
\* Error::from(status): the typed error wrapping a native status.
Err(status) == [kind |-> "Err", value |-> status]
MissingFeature == [kind |-> "Err", value |-> "MissingFeature"]
Panic(msg) == [kind |-> "Panic", value |-> msg]
NoCall == [kind |-> "NoCall", value |-> ""]
\* The ? of ortsys![...?]: the failed call's status leaves the function as Err.
Throw(l) == Ret(l, Err(Last(l).status))

----------------------------------------------------------------------------
(* The option registry and the builder of CUDAExecutionProvider.           *)

Digit(d) ==
    CASE d = 0 -> "0" [] d = 1 -> "1" [] d = 2 -> "2" [] d = 3 -> "3"
      [] d = 4 -> "4" [] d = 5 -> "5" [] d = 6 -> "6" [] d = 7 -> "7"
      [] d = 8 -> "8" [] d = 9 -> "9"

RECURSIVE nat_to_string(_)
nat_to_string(n) ==
    IF n < 10 THEN Digit(n) ELSE nat_to_string(n \div 10) \o Digit(n % 10)

\* ToString of an integer: its decimal digits, "-" first when negative.
to_string(n) == IF n < 0 THEN "-" \o nat_to_string(0 - n) ELSE nat_to_string(n)

\* ExecutionProviderOptions::set: insert, or overwrite in place.
set(opts, key, value) ==
    IF \E i \in 1..Len(opts) : opts[i][1] = key
    THEN [i \in 1..Len(opts) |->
            IF opts[i][1] = key THEN <<key, value>> ELSE opts[i]]
    ELSE Append(opts, <<key, value>>)

\* ExecutionProviderOptions::to_ffi: the parallel pointer arrays and the count.
to_ffi(opts) ==
    [key_ptrs   |-> [i \in 1..Len(opts) |-> opts[i][1]],
     value_ptrs |-> [i \in 1..Len(opts) |-> opts[i][2]],
     len        |-> Len(opts)]

\* What each setter hands to options.set.
with_device_id(device_id) == <<"device_id", to_string(device_id)>>

with_memory_limit(limit) == <<"gpu_mem_limit", to_string(limit)>>

\* A boolean written out by name.
with_tf32_Named(enable) == <<"use_tf32", IF enable THEN "true" ELSE "false">>

with_tf32(enable) == <<"use_tf32", IF enable THEN "1" ELSE "0">>

with_attention_backend(flags) == <<"sdpa_kernel", to_string(flags)>>

Keys == { "device_id", "gpu_mem_limit", "use_tf32", "sdpa_kernel" }
Unset == ""

\* Distinct keys the bounded builder holds at most.
MaxOptions == 3
\* Setter calls the history keeps; longer histories are forgotten.
MaxTrace == 3
Forgotten == << <<"forgotten", 0>> >>
\* Providers one session builder takes at most.
MaxProviders == 1

DeviceIds == { 0, 1 }
Limits == { 0, 1048576 }
Backends == { none, all }

----------------------------------------------------------------------------
(* CUDAExecutionProvider::register.                                        *)

\* The object CreateCUDAProviderOptions hands out.
CudaOptions == "cuda_options"
SessionBuilderPtr == "session_builder"
as_str == "CUDAExecutionProvider"

\* The closure the guard holds.
release_closure(cuda_options) ==
    NativeCall("ReleaseCUDAProviderOptions", <<cuda_options>>, Void)

\* util::run_on_drop: the closure runs when the guard leaves its scope.
run_on_drop(l, closure) == Append(l, closure)

\* The two pointer arrays handed over in each other's place.
update_args_Swapped(ffi) == <<ffi.value_ptrs, ffi.key_ptrs, ffi.len>>

\* The arguments of UpdateCUDAProviderOptions after the options object.
update_args(ffi) == <<ffi.key_ptrs, ffi.value_ptrs, ffi.len>>

\* The release written at the end of the happy path, without a guard.
register_NoGuard(opts, be, e) ==
    IF ~be THEN [log |-> <<>>, result |-> MissingFeature, attached |-> FALSE]
    ELSE
    LET l1 == Call(<<>>, "CreateCUDAProviderOptions", <<>>, e)
        l2 == Call(l1, "UpdateCUDAProviderOptions",
                   <<CudaOptions>> \o update_args(to_ffi(opts)), e)
        l3 == Call(l2, "SessionOptionsAppendExecutionProvider_CUDA_V2",
                   <<SessionBuilderPtr, CudaOptions>>, e)
    IN  IF Bad(l1) THEN [log |-> l1, result |-> Err(Last(l1).status), attached |-> FALSE]
        ELSE IF Bad(l2)
             THEN [log |-> l2, result |-> Err(Last(l2).status), attached |-> FALSE]
        ELSE IF Bad(l3)
             THEN [log |-> l3, result |-> Err(Last(l3).status), attached |-> FALSE]
        ELSE [log |-> Append(l3, release_closure(CudaOptions)),
              result |-> Ok("unit"), attached |-> TRUE]

\* The options object created before the feature is looked at.
register_CreateFirst(opts, be, e) ==
    LET l1 == Call(<<>>, "CreateCUDAProviderOptions", <<>>, e)
        guard == release_closure(CudaOptions)
        l2 == Call(l1, "UpdateCUDAProviderOptions",
                   <<CudaOptions>> \o update_args(to_ffi(opts)), e)
        l3 == Call(l2, "SessionOptionsAppendExecutionProvider_CUDA_V2",
                   <<SessionBuilderPtr, CudaOptions>>, e)
    IN  IF Bad(l1) THEN [log |-> l1, result |-> Err(Last(l1).status), attached |-> FALSE]
        ELSE IF ~be
             THEN [log |-> run_on_drop(l1, guard), result |-> MissingFeature,
                   attached |-> FALSE]
        ELSE IF Bad(l2)
             THEN [log |-> run_on_drop(l2, guard), result |-> Err(Last(l2).status),
                   attached |-> FALSE]
        ELSE IF Bad(l3)
             THEN [log |-> run_on_drop(l3, guard), result |-> Err(Last(l3).status),
                   attached |-> FALSE]
        ELSE [log |-> run_on_drop(l3, guard), result |-> Ok("unit"), attached |-> TRUE]

\* The status of the update call dropped instead of propagated.
register_UpdateUnchecked(opts, be, e) ==
    IF ~be THEN [log |-> <<>>, result |-> MissingFeature, attached |-> FALSE]
    ELSE
    LET l1 == Call(<<>>, "CreateCUDAProviderOptions", <<>>, e)
        l2 == Call(l1, "UpdateCUDAProviderOptions",
                   <<CudaOptions>> \o update_args(to_ffi(opts)), e)
        l3 == Call(l2, "SessionOptionsAppendExecutionProvider_CUDA_V2",
                   <<SessionBuilderPtr, CudaOptions>>, e)
        done == run_on_drop(l3, release_closure(CudaOptions))
    IN  IF Bad(l1) THEN [log |-> l1, result |-> Err(Last(l1).status), attached |-> FALSE]
        ELSE IF Bad(l3)
             THEN [log |-> done, result |-> Err(Last(l3).status), attached |-> FALSE]
        ELSE [log |-> done, result |-> Ok("unit"), attached |-> TRUE]

\* register in environment e.  The provider is attached when the native
\* append call succeeds.
register(opts, be, e) ==
    IF ~be THEN [log |-> <<>>, result |-> MissingFeature, attached |-> FALSE]
    ELSE
    LET l1 == Call(<<>>, "CreateCUDAProviderOptions", <<>>, e)
    IN  IF Bad(l1)
        THEN [log |-> l1, result |-> Err(Last(l1).status), attached |-> FALSE]
        ELSE
        LET guard == release_closure(CudaOptions)
            l2 == Call(l1, "UpdateCUDAProviderOptions",
                       <<CudaOptions>> \o update_args(to_ffi(opts)), e)
        IN  IF Bad(l2)
            THEN [log |-> run_on_drop(l2, guard), result |-> Err(Last(l2).status),
                  attached |-> FALSE]
            ELSE
            LET l3 == Call(l2, "SessionOptionsAppendExecutionProvider_CUDA_V2",
                           <<SessionBuilderPtr, CudaOptions>>, e)
            IN  IF Bad(l3)
                THEN [log |-> run_on_drop(l3, guard),
                      result |-> Err(Last(l3).status), attached |-> FALSE]
                ELSE [log |-> run_on_drop(l3, guard), result |-> Ok("unit"),
                      attached |-> TRUE]

----------------------------------------------------------------------------
(* Attribute decoding: FromKernelAttributes and FromOpAttr.                *)

SizeOfF32 == 4
SizeOfI64 == 8
SizeOfU8 == 1

\* Longest native string buffer drawn.
MaxLen == 3
\* Largest byte length ReadOpAttr is asked for or reports.
MaxBytes == 9
\* Most elements a native array attribute holds.
MaxSize == 2

\* NUL, 'A', and the two bytes of U+00E9: alone, 195 and 169 are not UTF-8.
Bytes == { 0, 65, 195, 169 }
Buffers == UNION { [1..n -> Bytes] : n \in 0..MaxLen }
Scalars == { 0, 5 }

Cont(b) == b >= 128 /\ b <= 191

\* core::str::from_utf8 on the bytes of b from position i on.
RECURSIVE valid_utf8(_, _)
valid_utf8(b, i) ==
    IF i > Len(b) THEN TRUE
    ELSE IF b[i] < 128 THEN valid_utf8(b, i + 1)
    ELSE IF b[i] >= 194 /\ b[i] <= 223
         THEN i + 1 <= Len(b) /\ Cont(b[i + 1]) /\ valid_utf8(b, i + 2)
    ELSE IF b[i] >= 224 /\ b[i] <= 239
         THEN /\ i + 2 <= Len(b)
              /\ Cont(b[i + 1]) /\ Cont(b[i + 2])
              /\ (b[i] = 224 => b[i + 1] >= 160)
              /\ (b[i] = 237 => b[i + 1] <= 159)
              /\ valid_utf8(b, i + 3)
    ELSE IF b[i] >= 240 /\ b[i] <= 244
         THEN /\ i + 3 <= Len(b)
              /\ Cont(b[i + 1]) /\ Cont(b[i + 2]) /\ Cont(b[i + 3])
              /\ (b[i] = 240 => b[i + 1] >= 144)
              /\ (b[i] = 244 => b[i + 1] <= 143)
              /\ valid_utf8(b, i + 4)
    ELSE FALSE

\* CString::from_vec_with_nul: the first NUL must be the last byte.
from_vec_with_nul(v) ==
    LET nuls == { i \in 1..Len(v) : v[i] = 0 }
    IN  IF nuls # {} /\ (CHOOSE i \in nuls : \A j \in nuls : i <= j) = Len(v)
        THEN Ok(SubSeq(v, 1, Len(v) - 1))
        ELSE Err("FromVecWithNulError")

\* The bytes taken for text unvalidated.
into_string_Unchecked(c) == Ok(c)

\* CString::into_string: the bytes before the NUL must be UTF-8.
into_string(c) == IF valid_utf8(c, 1) THEN Ok(c) ELSE Err("IntoStringError")

from_info_f32(info, e) ==
    LET l1 == Call(<<>>, "KernelInfoGetAttribute_float", <<info>>, e)
    IN  IF Bad(l1) THEN Throw(l1) ELSE Ret(l1, Ok(e.scalar))

from_info_i64(info, e) ==
    LET l1 == Call(<<>>, "KernelInfoGetAttribute_int64", <<info>>, e)
    IN  IF Bad(l1) THEN Throw(l1) ELSE Ret(l1, Ok(e.scalar))

\* e.buf is the buffer as the native fill call leaves it; the size the
\* first call reports is its length.
from_info_String(info, e) ==
    LET size == Len(e.buf)
        l1 == Call(<<>>, "KernelInfoGetAttribute_string", <<info, "null", 0>>, e)
    IN  IF Bad(l1) THEN Throw(l1)
        ELSE
        LET l2 == Call(l1, "KernelInfoGetAttribute_string", <<info, "buffer", size>>, e)
        IN  IF Bad(l2) THEN Throw(l2)
            ELSE
            LET string == from_vec_with_nul(e.buf)
            IN  IF string.kind = "Err" THEN Ret(l2, string)
                ELSE Ret(l2, into_string(string.value))

from_info_Vec_f32(info, e) ==
    LET size == e.size
        l1 == Call(<<>>, "KernelInfoGetAttributeArray_float", <<info, "null", 0>>, e)
    IN  IF Bad(l1) THEN Throw(l1)
        ELSE
        LET l2 == Call(l1, "KernelInfoGetAttributeArray_float",
                       <<info, "buffer", size>>, e)
        IN  IF Bad(l2) THEN Throw(l2)
            ELSE Ret(l2, Ok([i \in 1..size |-> e.scalar]))

from_info_Vec_i64(info, e) ==
    LET size == e.size
        l1 == Call(<<>>, "KernelInfoGetAttributeArray_int64", <<info, "null", 0>>, e)
    IN  IF Bad(l1) THEN Throw(l1)
        ELSE
        LET l2 == Call(l1, "KernelInfoGetAttributeArray_int64",
                       <<info, "buffer", size>>, e)
        IN  IF Bad(l2) THEN Throw(l2)
            ELSE Ret(l2, Ok([i \in 1..size |-> e.scalar]))

\* The tensor attribute: a null value pointer and a failed downcast are errors.
from_info_ValueRef(info, e) ==
    LET l1 == Call(<<>>, "KernelInfoGetAttribute_tensor", <<info, "allocator">>, e)
    IN  IF Bad(l1) THEN Throw(l1)
        ELSE IF e.ptr = "null" THEN Ret(l1, Err("expected pointer to not be null"))
        ELSE IF ~e.downcast THEN Ret(l1, Err("downcast"))
        ELSE Ret(l1, Ok("ValueRef"))

AttrTypes == { "f32", "i64", "String", "Vec<f32>", "Vec<i64>", "ValueRef" }
VarLenTypes == { "String", "Vec<f32>", "Vec<i64>" }
OpAttrTypes == { "f32", "i64", "String", "Vec<f32>", "Vec<i64>" }

from_info(T, info, e) ==
    CASE T = "f32" -> from_info_f32(info, e)
      [] T = "i64" -> from_info_i64(info, e)
      [] T = "String" -> from_info_String(info, e)
      [] T = "Vec<f32>" -> from_info_Vec_f32(info, e)
      [] T = "Vec<i64>" -> from_info_Vec_i64(info, e)
      [] T = "ValueRef" -> from_info_ValueRef(info, e)

\* e.ret is the length ReadOpAttr writes back through &mut len.
from_op_attr_f32(attr, len, e) ==
    LET l1 == Call(<<>>, "ReadOpAttr", <<attr, "ORT_OP_ATTR_FLOAT", SizeOfF32>>, e)
    IN  IF Bad(l1) THEN Throw(l1)
        ELSE IF e.ret # SizeOfF32 THEN Ret(l1, Panic("assert_eq"))
        ELSE Ret(l1, Ok(e.scalar))

from_op_attr_i64(attr, len, e) ==
    LET l1 == Call(<<>>, "ReadOpAttr", <<attr, "ORT_OP_ATTR_INT", SizeOfI64>>, e)
    IN  IF Bad(l1) THEN Throw(l1)
        ELSE IF e.ret # SizeOfI64 THEN Ret(l1, Panic("assert_eq"))
        ELSE Ret(l1, Ok(e.scalar))

\* e.buf, of len bytes, is the buffer as ReadOpAttr leaves it.
from_op_attr_String(attr, len, e) ==
    LET out_len == len \div SizeOfU8
        l1 == Call(<<>>, "ReadOpAttr", <<attr, "ORT_OP_ATTR_STRING", len>>, e)
    IN  IF Bad(l1) THEN Throw(l1)
        ELSE IF out_len # e.ret \div SizeOfU8 THEN Ret(l1, Panic("assert_eq"))
        ELSE
        LET string == from_vec_with_nul(e.buf)
        IN  IF string.kind = "Err" THEN Ret(l1, Err("invalid string"))
            ELSE IF into_string(string.value).kind = "Err"
                 THEN Ret(l1, Err("invalid string"))
            ELSE Ret(l1, into_string(string.value))

from_op_attr_Vec_f32(attr, len, e) ==
    LET out_len == len \div SizeOfF32
        l1 == Call(<<>>, "ReadOpAttr", <<attr, "ORT_OP_ATTR_FLOATS", len>>, e)
    IN  IF Bad(l1) THEN Throw(l1)
        ELSE IF out_len # e.ret \div SizeOfF32 THEN Ret(l1, Panic("assert_eq"))
        ELSE Ret(l1, Ok([i \in 1..out_len |-> e.scalar]))

from_op_attr_Vec_i64(attr, len, e) ==
    LET out_len == len \div SizeOfI64
        l1 == Call(<<>>, "ReadOpAttr", <<attr, "ORT_OP_ATTR_INTS", len>>, e)
    IN  IF Bad(l1) THEN Throw(l1)
        ELSE IF out_len # e.ret \div SizeOfI64 THEN Ret(l1, Panic("assert_eq"))
        ELSE Ret(l1, Ok([i \in 1..out_len |-> e.scalar]))

from_op_attr(T, attr, len, e) ==
    CASE T = "f32" -> from_op_attr_f32(attr, len, e)
      [] T = "i64" -> from_op_attr_i64(attr, len, e)
      [] T = "String" -> from_op_attr_String(attr, len, e)
      [] T = "Vec<f32>" -> from_op_attr_Vec_f32(attr, len, e)
      [] T = "Vec<i64>" -> from_op_attr_Vec_i64(attr, len, e)

----------------------------------------------------------------------------
(* KernelAttributes.                                                       *)

\* The null OrtKernelInfo pointer clone starts from.
NullInfo == 0
\* The OrtKernelInfo the native runtime owns and lends to the kernel.
NativeInfo == 1
\* Most inputs, and most outputs, the native runtime reports.
MaxCount == 1

from_ptr(ptr, should_release) == [ptr |-> ptr, should_release |-> should_release]

\* Option::ok: the error of a Result is dropped.
ok(r) ==
    IF r.kind = "Ok" THEN [kind |-> "Some", value |-> r.value]
    ELSE [kind |-> "None", value |-> ""]

\* util::with_cstr: a name with an interior NUL fails before f is called.
with_cstr(name_has_nul, r) ==
    IF name_has_nul THEN Ret(<<>>, Err("NulError")) ELSE r

get(T, self, name_has_nul, e) ==
    LET r == with_cstr(name_has_nul, from_info(T, self.ptr, e))
    IN  Ret(r.log, ok(r.result))

\* The loop of inputs (kind "Input") and of outputs (kind "Output"), from idx on.
RECURSIVE names_from(_, _, _, _, _, _)
names_from(kind, info, idx, l, acc, e) ==
    IF idx >= e.num THEN Ret(l, Ok(acc))
    ELSE
    LET get_name == "KernelInfo_Get" \o kind \o "Name"
        l1 == Call(l, get_name, <<info, idx, "null", 0>>, e)
    IN  IF Bad(l1) THEN Throw(l1)
        ELSE
        LET l2 == Call(l1, get_name, <<info, idx, "buffer", Len(e.buf)>>, e)
        IN  IF Bad(l2) THEN Throw(l2)
            ELSE
            LET c == from_vec_with_nul(e.buf)
            IN  IF c.kind = "Err" THEN Ret(l2, c)
                ELSE IF into_string(c.value).kind = "Err"
                     THEN Ret(l2, into_string(c.value))
                ELSE
                LET l3 == Call(l2, "KernelInfo_Get" \o kind \o "TypeInfo",
                               <<info, idx>>, e)
                IN  IF Bad(l3) THEN Throw(l3)
                    ELSE IF e.ptr = "null"
                         THEN Ret(l3, Err("expected pointer to not be null"))
                    ELSE names_from(kind, info, idx + 1, l3,
                                    Append(acc, c.value), e)

inputs(self, e) ==
    LET l0 == Call(<<>>, "KernelInfo_GetInputCount", <<self.ptr>>, e)
    IN  IF Bad(l0) THEN Throw(l0)
        ELSE names_from("Input", self.ptr, 0, l0, <<>>, e)

outputs(self, e) ==
    LET l0 == Call(<<>>, "KernelInfo_GetOutputCount", <<self.ptr>>, e)
    IN  IF Bad(l0) THEN Throw(l0)
        ELSE names_from("Output", self.ptr, 0, l0, <<>>, e)

constant_input(self, idx, e) ==
    LET l1 == Call(<<>>, "KernelInfoGetConstantInput_tensor", <<self.ptr, idx>>, e)
    IN  IF Bad(l1) THEN Throw(l1)
        ELSE IF ~e.is_constant \/ e.ptr = "null"
             THEN Ret(l1, Err("input index out of bounds or input is not constant"))
        ELSE IF ~e.downcast THEN Ret(l1, Err("downcast"))
        ELSE Ret(l1, Ok("ValueRef"))

node_name(self, e) ==
    LET l1 == Call(<<>>, "KernelInfo_GetNodeName", <<self.ptr, "null", 0>>, e)
    IN  IF Bad(l1) THEN Throw(l1)
        ELSE
        LET l2 == Call(l1, "KernelInfo_GetNodeName",
                       <<self.ptr, "buffer", Len(e.buf)>>, e)
        IN  IF Bad(l2) THEN Throw(l2)
            ELSE
            LET c == from_vec_with_nul(e.buf)
            IN  IF c.kind = "Err" THEN Ret(l2, c)
                ELSE Ret(l2, into_string(c.value))

KernelAttributes_allocator(self, mem_type, e) ==
    LET l1 == Call(<<>>, "KernelInfoGetAllocator", <<self.ptr, mem_type>>, e)
    IN  IF Bad(l1) THEN Throw(l1)
        ELSE IF e.ptr = "null" THEN Ret(l1, Err("expected pointer to not be null"))
        ELSE Ret(l1, Ok("Allocator"))

\* A clone that borrows the copy.
clone_Borrowed(self, e) ==
    LET l1 == Call(<<>>, "CopyKernelInfo", <<self.ptr>>, e)
    IN  IF Bad(l1) THEN Ret(l1, Panic("failed to clone KernelAttributes"))
        ELSE IF e.out = NullInfo
             THEN Ret(l1, Panic("failed to clone KernelAttributes"))
        ELSE Ret(l1, Ok([ptr |-> e.out, should_release |-> FALSE]))

\* impl Clone: e.out is the pointer CopyKernelInfo writes.
clone(self, e) ==
    LET l1 == Call(<<>>, "CopyKernelInfo", <<self.ptr>>, e)
    IN  IF Bad(l1) THEN Ret(l1, Panic("failed to clone KernelAttributes"))
        ELSE IF e.out = NullInfo
             THEN Ret(l1, Panic("failed to clone KernelAttributes"))
        ELSE Ret(l1, Ok([ptr |-> e.out, should_release |-> TRUE]))

\* A drop that releases whatever it holds.
drop_Always(self) ==
    Ret(<<NativeCall("ReleaseKernelInfo", <<self.ptr>>, Void)>>, Ok("unit"))

\* impl Drop.
drop(self) ==
    IF self.should_release
    THEN Ret(<<NativeCall("ReleaseKernelInfo", <<self.ptr>>, Void)>>, Ok("unit"))
    ELSE Ret(<<>>, Ok("unit"))

----------------------------------------------------------------------------
(* ScratchBuffer.                                                          *)

\* self.allocator.memory_info().is_cpu_accessible()
is_cpu_accessible(self) == self.cpu

Some(v) == [kind |-> "Some", value |-> v]
None == [kind |-> "None", value |-> ""]

\* A view handed out whatever memory the allocator manages.
as_slice_Unchecked(self) == Some("&[T]")

as_slice(self) == IF is_cpu_accessible(self) THEN Some("&[T]") ELSE None

as_mut_slice(self) == IF is_cpu_accessible(self) THEN Some("&mut [T]") ELSE None

\* The buffer forgotten instead of freed.
scratch_drop_Leaked(self) == Ret(<<>>, Ok("unit"))

\* Drop for ScratchBuffer: the one allocation goes back to its allocator.
scratch_drop(self) ==
    Ret(<<NativeCall("Allocator::free", <<self.buffer>>, Void)>>, Ok("unit"))

----------------------------------------------------------------------------
(* KernelContext.                                                          *)

CtxPtr == "ctx"

\* Ok(NonNull::new(ptr)...): a null pointer is Ok(None).
Optional(l, e) == Ret(l, Ok(IF e.ptr = "null" THEN "None" ELSE "Some"))

\* A failed native call read as an absent input.
input_Swallowed(idx, e) ==
    LET l1 == Call(<<>>, "KernelContext_GetInput", <<CtxPtr, idx>>, e)
    IN  IF Bad(l1) THEN Ret(l1, Ok("None")) ELSE Optional(l1, e)

input(idx, e) ==
    LET l1 == Call(<<>>, "KernelContext_GetInput", <<CtxPtr, idx>>, e)
    IN  IF Bad(l1) THEN Throw(l1) ELSE Optional(l1, e)

output(idx, shape, e) ==
    LET l1 == Call(<<>>, "KernelContext_GetOutput", <<CtxPtr, idx, shape, Len(shape)>>, e)
    IN  IF Bad(l1) THEN Throw(l1) ELSE Optional(l1, e)

num_inputs(e) ==
    LET l1 == Call(<<>>, "KernelContext_GetInputCount", <<CtxPtr>>, e)
    IN  IF Bad(l1) THEN Throw(l1) ELSE Ret(l1, Ok(e.num))

num_outputs(e) ==
    LET l1 == Call(<<>>, "KernelContext_GetOutputCount", <<CtxPtr>>, e)
    IN  IF Bad(l1) THEN Throw(l1) ELSE Ret(l1, Ok(e.num))

KernelContext_allocator(memory_info, e) ==
    LET l1 == Call(<<>>, "KernelContext_GetAllocator", <<CtxPtr, memory_info>>, e)
    IN  IF Bad(l1) THEN Throw(l1) ELSE Ret(l1, Ok("Allocator"))

get_resource(id, version, e) ==
    LET l1 == Call(<<>>, "KernelContext_GetResource", <<CtxPtr, version, id>>, e)
    IN  IF Bad(l1) THEN Throw(l1) ELSE Optional(l1, e)

compute_stream(e) ==
    LET l1 == Call(<<>>, "KernelContext_GetGPUComputeStream", <<CtxPtr>>, e)
    IN  IF Bad(l1) THEN Throw(l1) ELSE Optional(l1, e)

----------------------------------------------------------------------------
(* KernelContext::par_for and its trampoline.                              *)

\* Largest total drawn.
MaxTotal == 3
\* Largest max_num_batches drawn.
MaxBatches == 2

\* &executor: the address of the boxed closure in the frame of par_for.
Executor == "executor"

NoWork == [i \in 0..(MaxTotal + 1) |-> 0]

\* A trampoline that counts from one.
parallel_for_cb_OffByOne(user_data, iterator, work) ==
    [work EXCEPT ![iterator + 1] = @ + 1]

\* parallel_for_cb: the executor behind user_data runs once, on iterator.
\* work[i] counts the runs of the closure on index i.
parallel_for_cb(user_data, iterator, work) ==
    [work EXCEPT ![iterator] = @ + 1]

\* The native contract: [0, total) is cut into contiguous batches, at most
\* max_num_batches of them, one per index at most when that is 0.
Partitions(total, max_num_batches) ==
    IF total = 0 THEN { {} }
    ELSE { C \in SUBSET (1..(total - 1)) :
             Cardinality(C) + 1 <=
                 IF max_num_batches = 0 THEN total ELSE max_num_batches }

BatchEnd(p, s) ==
    CHOOSE c \in (p.cuts \cup { p.total }) :
        c > s /\ \A d \in (p.cuts \cup { p.total }) : d > s => c <= d

\* The indices of the batch starting at s not yet handed to the callback.
Pending(p, s) == { i \in s..(BatchEnd(p, s) - 1) : i \notin p.dispatched }

ParallelForCall(total, max_num_batches, st) ==
    NativeCall("KernelContext_ParallelFor",
               <<CtxPtr, "parallel_for_cb", total, max_num_batches, Executor>>, st)

PfIdle ==
    [pc |-> "idle", total |-> 0, max_num_batches |-> 0, cuts |-> {},
     dispatched |-> {}, work |-> NoWork, executor |-> "none"]

\* The closure boxed as a temporary that is gone before the native call.
par_for_call_Temporary(total, max_num_batches, C) ==
    [PfIdle EXCEPT !.pc = "native", !.total = total,
                   !.max_num_batches = max_num_batches, !.cuts = C,
                   !.executor = "dropped"]

\* The frame of par_for while the native call runs: executor holds the boxed
\* closure and &executor is the user data.  C is the cut the runtime chose.
par_for_call(total, max_num_batches, C) ==
    [PfIdle EXCEPT !.pc = "native", !.total = total,
                   !.max_num_batches = max_num_batches, !.cuts = C,
                   !.executor = "boxed"]

\* The native status taken for success.
par_for_result_Swallowed(st) == Ok("unit")

\* ortsys![...?] then Ok(()): what par_for returns for a native status.
par_for_result(st) == IF st = OK THEN Ok("unit") ELSE Err(st)

\* par_for returns: executor goes out of scope and the box is dropped.
par_for_return(p) == [p EXCEPT !.pc = "returned", !.executor = "dropped"]

----------------------------------------------------------------------------
(* The environment of one operation.                                       *)

E0 ==
    [fail_at |-> 0, status |-> OK, scalar |-> 0, buf |-> <<>>, size |-> 0,
     ret |-> 0, ptr |-> "null", downcast |-> FALSE, num |-> 0,
     is_constant |-> FALSE, out |-> NullInfo]

Errors == Status \ { OK }
Ptrs == { "null", "ptr" }

\* base, and base with one of its first n native calls failing.
Fail(base, n) ==
    { base } \cup
    { [base EXCEPT !.fail_at = k, !.status = st] : k \in 1..n, st \in Errors }

NoHandles == <<>>
FirstCopy == 2

----------------------------------------------------------------------------
(* Actions of the provider builder.                                        *)

KernelIdle == UNCHANGED <<fa, fb, handles, next_ptr, scratch>>

Setter(name, arg, kv) ==
    /\ op = "none"
    /\ \/ Len(options) < MaxOptions
       \/ \E i \in 1..Len(options) : options[i][1] = kv[1]
    /\ options' = set(options, kv[1], kv[2])
    /\ last_set' = [last_set EXCEPT ![kv[1]] = kv[2]]
    /\ overwritten' = (overwritten \/ last_set[kv[1]] \notin { Unset, kv[2] })
    /\ trace' = IF trace # Forgotten /\ Len(trace) < MaxTrace
                THEN Append(trace, <<name, arg>>)
                ELSE Forgotten
    /\ UNCHANGED <<op, env, log, result, pf>>
    /\ UNCHANGED <<backend, session, session_in>>
    /\ KernelIdle

WithDeviceId == \E d \in DeviceIds : Setter("with_device_id", d, with_device_id(d))

WithMemoryLimit == \E l \in Limits : Setter("with_memory_limit", l, with_memory_limit(l))

WithTf32 == \E e \in BOOLEAN : Setter("with_tf32", e, with_tf32(e))

WithAttentionBackend ==
    \E f \in Backends : Setter("with_attention_backend", f, with_attention_backend(f))

Register ==
    /\ op = "none"
    /\ Len(session) < MaxProviders
    /\ \E e \in Fail(E0, 3) :
         LET r == register(options, backend, e)
         IN  /\ op' = "register"
             /\ env' = e
             /\ log' = r.log
             /\ result' = r.result
             /\ session' = IF r.attached THEN Append(session, as_str) ELSE session
    /\ session_in' = session
    /\ pf' = PfIdle
    /\ UNCHANGED <<backend, options, last_set, overwritten, trace>>
    /\ KernelIdle

\* features: the builds drawn, TRUE for one with cuda or load-dynamic.
InitFeature(hs, features) ==
    /\ fa = none
    /\ fb = none
    /\ backend \in features
    /\ options = <<>>
    /\ last_set = [k \in Keys |-> Unset]
    /\ overwritten = FALSE
    /\ trace = <<>>
    /\ session_in = <<>>
    /\ session = <<>>
    /\ handles = hs
    /\ next_ptr = FirstCopy
    /\ scratch = <<>>
    /\ op = "none"
    /\ env = E0
    /\ log = <<>>
    /\ result = NoCall
    /\ pf = PfIdle

InitWith(hs) == InitFeature(hs, { TRUE })

InitProvider == InitWith(NoHandles)

----------------------------------------------------------------------------
(* Actions of the kernel bridge.  The bridge is synchronous: its caller    *)
(* makes one call at a time, and none while par_for is inside the native   *)
(* call.                                                                   *)

\* KernelAttributes handles the bounded model makes at most.
MaxHandles == 3

ProviderIdle ==
    UNCHANGED <<fa, fb, backend, options, last_set, overwritten, trace,
                session_in, session>>

Returns(name, e, r) ==
    /\ op' = name
    /\ env' = e
    /\ log' = r.log
    /\ result' = r.result
    /\ pf' = PfIdle
    /\ ProviderIdle

Live == { i \in 1..Len(handles) : handles[i].live }
Hnd(i) == from_ptr(handles[i].ptr, handles[i].should_release)

NewHandle(h, how) ==
    [ptr |-> h.ptr, should_release |-> h.should_release, made_by |-> how,
     mode0 |-> h.should_release, live |-> TRUE, releases |-> 0]

\* The kernel as the native runtime creates it: one borrowed handle.
Borrowed == <<NewHandle(from_ptr(NativeInfo, FALSE), "from_ptr")>>

FromPtr ==
    /\ op = "none"
    /\ Len(handles) < MaxHandles
    /\ \E should_release \in BOOLEAN :
         handles' = Append(handles,
                           NewHandle(from_ptr(NativeInfo, should_release), "from_ptr"))
    /\ Returns("from_ptr", E0, Ret(<<>>, Ok("KernelAttributes")))
    /\ UNCHANGED <<next_ptr, scratch>>

Clone ==
    /\ op = "none"
    /\ Len(handles) < MaxHandles
    /\ \E i \in Live :
       \E e \in Fail(E0, 1) \cup { [E0 EXCEPT !.out = next_ptr] } :
         LET r == clone(Hnd(i), e)
         IN  /\ handles' = IF r.result.kind = "Ok"
                           THEN Append(handles, NewHandle(r.result.value, "clone"))
                           ELSE handles
             /\ next_ptr' = IF e.fail_at = 0 /\ e.out # NullInfo
                            THEN next_ptr + 1 ELSE next_ptr
             /\ Returns("clone", e,
                        Ret(r.log, IF r.result.kind = "Ok"
                                   THEN Ok("KernelAttributes") ELSE r.result))
    /\ UNCHANGED scratch

Drop ==
    /\ op = "none"
    /\ \E i \in Live :
         LET r == drop(Hnd(i))
             n == Cardinality({ k \in 1..Len(r.log) :
                                  /\ r.log[k].call = "ReleaseKernelInfo"
                                  /\ r.log[k].args = <<handles[i].ptr>> })
         IN  /\ handles' = [handles EXCEPT ![i].live = FALSE,
                                            ![i].releases = @ + n]
             /\ Returns("drop", E0, r)
    /\ UNCHANGED <<next_ptr, scratch>>

EnvFromInfo(T) ==
    CASE T \in { "f32", "i64" } ->
            UNION { Fail([E0 EXCEPT !.scalar = v], 1) : v \in Scalars }
      [] T = "String" ->
            UNION { Fail([E0 EXCEPT !.buf = b], 2) : b \in Buffers }
      [] T \in { "Vec<f32>", "Vec<i64>" } ->
            UNION { Fail([E0 EXCEPT !.size = n, !.scalar = v], 2) :
                      n \in 0..MaxSize, v \in Scalars }
      [] T = "ValueRef" ->
            UNION { Fail([E0 EXCEPT !.ptr = p, !.downcast = d], 1) :
                      p \in Ptrs, d \in BOOLEAN }

KernelUnchanged == UNCHANGED <<handles, next_ptr, scratch>>

Get ==
    /\ op = "none"
    /\ \E i \in Live, T \in AttrTypes, name_has_nul \in BOOLEAN :
       \E e \in IF name_has_nul THEN { E0 } ELSE EnvFromInfo(T) :
         Returns("get", e, get(T, Hnd(i), name_has_nul, e))
    /\ KernelUnchanged

FromInfo ==
    /\ op = "none"
    /\ \E i \in Live, T \in AttrTypes :
       \E e \in EnvFromInfo(T) :
         Returns("from_info", e, from_info(T, handles[i].ptr, e))
    /\ KernelUnchanged

\* The lengths a caller asks from_op_attr for, and the buffers that go with them.
EnvFromOpAttr(T, len) ==
    CASE T \in { "f32", "i64" } ->
            UNION { Fail([E0 EXCEPT !.scalar = v, !.ret = r], 1) :
                      v \in Scalars, r \in 0..MaxBytes }
      [] T = "String" ->
            UNION { Fail([E0 EXCEPT !.buf = b, !.ret = r], 1) :
                      b \in { c \in Buffers : Len(c) = len }, r \in 0..MaxBytes }
      [] T \in { "Vec<f32>", "Vec<i64>" } ->
            UNION { Fail([E0 EXCEPT !.scalar = v, !.ret = r], 1) :
                      v \in Scalars, r \in 0..MaxBytes }

LensFromOpAttr(T) ==
    CASE T = "f32" -> { SizeOfF32 }
      [] T = "i64" -> { SizeOfI64 }
      [] T = "String" -> 0..MaxLen
      [] T \in { "Vec<f32>", "Vec<i64>" } -> 0..MaxBytes

FromOpAttr ==
    /\ op = "none"
    /\ \E T \in OpAttrTypes :
       \E len \in LensFromOpAttr(T) :
       \E e \in EnvFromOpAttr(T, len) :
         Returns("from_op_attr", e, from_op_attr(T, "attr", len, e))
    /\ KernelUnchanged

Names == { <<65, 0>>, <<65>>, <<195, 0>> }

EnvNames ==
    UNION { Fail([E0 EXCEPT !.num = n, !.buf = b, !.ptr = p], 1 + 3 * MaxCount) :
              n \in 0..MaxCount, b \in Names, p \in Ptrs }

Inputs ==
    /\ op = "none"
    /\ \E i \in Live, e \in EnvNames : Returns("inputs", e, inputs(Hnd(i), e))
    /\ KernelUnchanged

Outputs ==
    /\ op = "none"
    /\ \E i \in Live, e \in EnvNames : Returns("outputs", e, outputs(Hnd(i), e))
    /\ KernelUnchanged

EnvValue ==
    UNION { Fail([E0 EXCEPT !.is_constant = c, !.ptr = p, !.downcast = d], 1) :
              c \in BOOLEAN, p \in Ptrs, d \in BOOLEAN }

ConstantInput ==
    /\ op = "none"
    /\ \E i \in Live, idx \in 0..MaxCount, e \in EnvValue :
         Returns("constant_input", e, constant_input(Hnd(i), idx, e))
    /\ KernelUnchanged

NodeName ==
    /\ op = "none"
    /\ \E i \in Live, b \in Names :
       \E e \in Fail([E0 EXCEPT !.buf = b], 2) :
         Returns("node_name", e, node_name(Hnd(i), e))
    /\ KernelUnchanged

EnvPtr == UNION { Fail([E0 EXCEPT !.ptr = p], 1) : p \in Ptrs }
EnvNum == UNION { Fail([E0 EXCEPT !.num = n], 1) : n \in 0..MaxCount }

AttrAllocator ==
    /\ op = "none"
    /\ \E i \in Live, e \in EnvPtr :
         Returns("KernelAttributes::allocator", e,
                 KernelAttributes_allocator(Hnd(i), "Default", e))
    /\ KernelUnchanged

Input ==
    /\ op = "none"
    /\ \E idx \in 0..MaxCount, e \in EnvPtr : Returns("input", e, input(idx, e))
    /\ KernelUnchanged

Output ==
    /\ op = "none"
    /\ \E idx \in 0..MaxCount, shape \in { <<>>, <<1, 2>> }, e \in EnvPtr :
         Returns("output", e, output(idx, shape, e))
    /\ KernelUnchanged

NumInputs ==
    /\ op = "none"
    /\ \E e \in EnvNum : Returns("num_inputs", e, num_inputs(e))
    /\ KernelUnchanged

NumOutputs ==
    /\ op = "none"
    /\ \E e \in EnvNum : Returns("num_outputs", e, num_outputs(e))
    /\ KernelUnchanged

CtxAllocator ==
    /\ op = "none"
    /\ \E e \in EnvPtr :
         Returns("KernelContext::allocator", e, KernelContext_allocator("Cpu", e))
    /\ KernelUnchanged

GetResource ==
    /\ op = "none"
    /\ \E id \in { 1 }, version \in { 2 }, e \in EnvPtr :
         Returns("get_resource", e, get_resource(id, version, e))
    /\ KernelUnchanged

ComputeStream ==
    /\ op = "none"
    /\ \E e \in EnvPtr : Returns("compute_stream", e, compute_stream(e))
    /\ KernelUnchanged

\* par_for enters the native call: the closure is boxed and its address
\* handed over.  The native call fails before it dispatches anything, or
\* cuts the range into batches for its thread pool.
ParFor ==
    /\ op = "none"
    /\ \E total \in 0..MaxTotal, max_num_batches \in 0..MaxBatches :
       \E e \in Fail(E0, 1) :
         /\ op' = "par_for"
         /\ env' = e
         /\ IF e.fail_at = 1
            THEN /\ log' = <<ParallelForCall(total, max_num_batches, e.status)>>
                 /\ result' = par_for_result(e.status)
                 /\ pf' = par_for_return(par_for_call(total, max_num_batches, {}))
            ELSE /\ log' = <<>>
                 /\ result' = NoCall
                 /\ \E C \in Partitions(total, max_num_batches) :
                      pf' = par_for_call(total, max_num_batches, C)
    /\ ProviderIdle
    /\ KernelUnchanged

\* A pool thread takes the next index of one batch through the trampoline.
ParForBatch ==
    /\ pf.pc = "native"
    /\ \E s \in ({ 0 } \cup pf.cuts) :
         /\ s < pf.total
         /\ Pending(pf, s) # {}
         /\ LET i == CHOOSE j \in Pending(pf, s) : \A k \in Pending(pf, s) : j <= k
            IN  pf' = [pf EXCEPT !.work = parallel_for_cb(Executor, i, @),
                                 !.dispatched = @ \cup { i }]
    /\ UNCHANGED <<op, env, log, result>>
    /\ ProviderIdle
    /\ KernelUnchanged

\* Every batch is done: the native call returns and par_for returns Ok(()).
ParForReturn ==
    /\ pf.pc = "native"
    /\ pf.dispatched = 0..(pf.total - 1)
    /\ log' = <<ParallelForCall(pf.total, pf.max_num_batches, OK)>>
    /\ result' = par_for_result(OK)
    /\ pf' = par_for_return(pf)
    /\ UNCHANGED <<op, env>>
    /\ ProviderIdle
    /\ KernelUnchanged

\* The native call gives up with a failure status after it has started to
\* dispatch: the pool threads have stopped, with the batches run so far.
ParForFail ==
    /\ pf.pc = "native"
    /\ pf.total > 0
    /\ \E st \in Errors :
         /\ env' = [env EXCEPT !.fail_at = 1, !.status = st]
         /\ log' = <<ParallelForCall(pf.total, pf.max_num_batches, st)>>
         /\ result' = par_for_result(st)
    /\ pf' = par_for_return(pf)
    /\ UNCHANGED op
    /\ ProviderIdle
    /\ KernelUnchanged

\* The caller has taken the result of its call and goes on.
Resume ==
    /\ op # "none"
    /\ pf.pc # "native"
    /\ op' = "none"
    /\ env' = E0
    /\ log' = <<>>
    /\ result' = NoCall
    /\ pf' = PfIdle
    /\ ProviderIdle
    /\ KernelUnchanged

Init == InitWith(Borrowed)

Next ==
    \/ Clone
    \/ Get
    \/ FromInfo
    \/ FromOpAttr
    \/ Inputs
    \/ Outputs
    \/ ConstantInput
    \/ NodeName
    \/ AttrAllocator
    \/ Input
    \/ Output
    \/ NumInputs
    \/ NumOutputs
    \/ CtxAllocator
    \/ GetResource
    \/ ComputeStream
    \/ ParFor
    \/ ParForBatch
    \/ ParForReturn
    \/ ParForFail
    \/ Register
    \/ Resume

Spec == Init /\ [][Next]_vars

NextProvider ==
    \/ WithDeviceId
    \/ WithMemoryLimit
    \/ WithTf32
    \/ WithAttentionBackend
    \/ Register
    \/ Resume

SpecProvider == InitProvider /\ [][NextProvider]_vars

\* The provider in a build with and in a build without the backend feature.
InitBuild == InitFeature(NoHandles, BOOLEAN)

SpecBuild == InitBuild /\ [][NextProvider]_vars

InitHandles == InitWith(NoHandles)

\* ScratchBuffer values the bounded model makes at most.
MaxScratch == 2
\* Shared views of one buffer alive at once at most.
MaxViews == 2

\* A ScratchBuffer as its constructor leaves it: one allocation of the
\* allocator, in host memory or in device memory.  shared and exclusive are
\* the borrows of the buffer alive: the views as_slice and as_mut_slice
\* returned that their holders still use.
NewScratch(n, cpu) ==
    [buffer |-> n, cpu |-> cpu, live |-> TRUE, shared |-> 0, exclusive |-> FALSE,
     frees |-> 0]

ScratchUnchanged == UNCHANGED <<handles, next_ptr>>

ScratchNew ==
    /\ op = "none"
    /\ Len(scratch) < MaxScratch
    /\ \E cpu \in BOOLEAN :
         scratch' = Append(scratch, NewScratch(Len(scratch) + 1, cpu))
    /\ Returns("ScratchBuffer", E0, Ret(<<>>, Ok("ScratchBuffer")))
    /\ ScratchUnchanged

\* as_slice(&self): allowed while no exclusive view of the buffer is alive.
AsSlice ==
    /\ op = "none"
    /\ \E i \in 1..Len(scratch) :
         /\ scratch[i].live
         /\ ~scratch[i].exclusive
         /\ scratch[i].shared < MaxViews
         /\ LET r == as_slice(scratch[i])
            IN  /\ scratch' = IF r.kind = "Some"
                              THEN [scratch EXCEPT ![i].shared = @ + 1]
                              ELSE scratch
                /\ Returns("as_slice", [E0 EXCEPT !.out = i], Ret(<<>>, r))
    /\ ScratchUnchanged

\* as_mut_slice(&mut self): allowed while no view of the buffer is alive.
AsMutSlice ==
    /\ op = "none"
    /\ \E i \in 1..Len(scratch) :
         /\ scratch[i].live
         /\ ~scratch[i].exclusive
         /\ scratch[i].shared = 0
         /\ LET r == as_mut_slice(scratch[i])
            IN  /\ scratch' = IF r.kind = "Some"
                              THEN [scratch EXCEPT ![i].exclusive = TRUE]
                              ELSE scratch
                /\ Returns("as_mut_slice", [E0 EXCEPT !.out = i], Ret(<<>>, r))
    /\ ScratchUnchanged

\* The holder of a view is done with it: the borrow ends.
ViewEnd ==
    /\ op = "none"
    /\ \E i \in 1..Len(scratch) :
         \/ /\ scratch[i].shared > 0
            /\ scratch' = [scratch EXCEPT ![i].shared = @ - 1]
         \/ /\ scratch[i].exclusive
            /\ scratch' = [scratch EXCEPT ![i].exclusive = FALSE]
    /\ UNCHANGED <<op, env, log, result, pf>>
    /\ ProviderIdle
    /\ ScratchUnchanged

\* The buffer goes out of scope, which it can only with no borrow alive.
ScratchDrop ==
    /\ op = "none"
    /\ \E i \in 1..Len(scratch) :
         /\ scratch[i].live
         /\ scratch[i].shared = 0
         /\ ~scratch[i].exclusive
         /\ LET r == scratch_drop(scratch[i])
                n == Cardinality({ k \in 1..Len(r.log) :
                                     /\ r.log[k].call = "Allocator::free"
                                     /\ r.log[k].args = <<scratch[i].buffer>> })
            IN  /\ scratch' = [scratch EXCEPT ![i].live = FALSE,
                                              ![i].frees = @ + n]
                /\ Returns("scratch_drop", [E0 EXCEPT !.out = i], r)
    /\ ScratchUnchanged

InitScratch == InitWith(NoHandles)

NextScratch == ScratchNew \/ AsSlice \/ AsMutSlice \/ ViewEnd \/ ScratchDrop \/ Resume

SpecScratch == InitScratch /\ [][NextScratch]_vars

NextHandles == FromPtr \/ Clone \/ Drop \/ Resume

SpecHandles == InitHandles /\ [][NextHandles]_vars

----------------------------------------------------------------------------
(* Combining attention backend flags.                                      *)

OrIntoA == \E f \in NamedFlags :
    /\ fa' = bitor(fa, f)
    /\ UNCHANGED <<fb, backend, options, last_set, overwritten, trace,
                   session_in, session,
                   handles, next_ptr, scratch, op, env, log, result, pf>>

OrIntoB == \E f \in NamedFlags :
    /\ fb' = bitor(fb, f)
    /\ UNCHANGED <<fa, backend, options, last_set, overwritten, trace,
                   session_in, session,
                   handles, next_ptr, scratch, op, env, log, result, pf>>

InitFlags == InitProvider

NextFlags == OrIntoA \/ OrIntoB

SpecFlags == InitFlags /\ [][NextFlags]_vars

----------------------------------------------------------------------------
(* Properties.                                                             *)

Calls(name) == { i \in 1..Len(log) : log[i].call = name }
Failed == { i \in 1..Len(log) : log[i].status \notin { OK, Void } }
StatusCalls == { i \in 1..Len(log) : log[i].status # Void }

Created ==
    \E i \in Calls("CreateCUDAProviderOptions") : log[i].status = OK

\* C3: in register, once CreateCUDAProviderOptions has succeeded the object
\* it made is handed to ReleaseCUDAProviderOptions exactly once before
\* register returns, whether register succeeds or the update or the append
\* call fails, and the release comes after every update and append call;
\* when create fails nothing is released.
C3_ReleasedOnEveryExit ==
    op = "register" =>
        LET rel == Calls("ReleaseCUDAProviderOptions")
        IN  IF Created
            THEN /\ Cardinality(rel) = 1
                 /\ \A i \in rel :
                       /\ log[i].args = <<CudaOptions>>
                       /\ i = Len(log)
                       /\ \A j \in Calls("UpdateCUDAProviderOptions")
                                \cup Calls("SessionOptionsAppendExecutionProvider_CUDA_V2") :
                             j < i
            ELSE rel = {}

C3_Witness ==
    /\ op = "register"
    /\ result.kind = "Err"
    /\ \E i \in Calls("UpdateCUDAProviderOptions") : log[i].status # OK
    /\ log[Len(log)].call = "ReleaseCUDAProviderOptions"

\* C7: the view register hands to UpdateCUDAProviderOptions holds exactly one
\* entry for each key some setter has set and none for any other key, each
\* entry holds the value set last for its key, and the key array, the value
\* array and the reported count agree in length.
C7_OneEntryPerKey ==
    op = "register" =>
        \A i \in Calls("UpdateCUDAProviderOptions") :
            LET keys == log[i].args[2]
                values == log[i].args[3]
                n == log[i].args[4]
            IN  /\ Len(keys) = n
                /\ Len(values) = n
                /\ \A j \in 1..Len(keys) :
                      keys[j] \in Keys /\ last_set[keys[j]] # Unset
                /\ \A k \in Keys :
                      last_set[k] # Unset =>
                        /\ Cardinality({ j \in 1..Len(keys) : keys[j] = k }) = 1
                        /\ \A j \in 1..Len(keys) :
                              keys[j] = k => values[j] = last_set[k]

C7_Witness ==
    /\ op = "register"
    /\ overwritten
    /\ \E i \in Calls("UpdateCUDAProviderOptions") : log[i].args[4] >= 2

Scenario ==
    << <<"with_device_id", 1>>, <<"with_memory_limit", 1048576>>,
       <<"with_tf32", TRUE>> >>

\* C8: after with_device_id(1), with_memory_limit(1048576), with_tf32(true)
\* on a fresh builder, in that order, the serialized options are exactly
\* ("device_id","1"), ("gpu_mem_limit","1048576"), ("use_tf32","1") in that
\* order, in the builder and in what register hands to the native update
\* call; with_tf32(false) alone serializes as ("use_tf32","0").
C8_ScenarioSerialization ==
    /\ trace = Scenario =>
          /\ to_ffi(options) =
                [key_ptrs |-> <<"device_id", "gpu_mem_limit", "use_tf32">>,
                 value_ptrs |-> <<"1", "1048576", "1">>,
                 len |-> 3]
          /\ op = "register" =>
                \A i \in Calls("UpdateCUDAProviderOptions") :
                    log[i].args =
                        <<CudaOptions, <<"device_id", "gpu_mem_limit", "use_tf32">>,
                          <<"1", "1048576", "1">>, 3>>
    /\ trace = << <<"with_tf32", FALSE>> >> => options = << <<"use_tf32", "0">> >>

C8_Witness ==
    /\ trace = Scenario
    /\ op = "register"
    /\ result.kind = "Ok"

\* C10: in register the status calls are a prefix of create, update, append
\* in that order, a call is made only if every earlier one succeeded, a
\* failed call makes register return the error wrapping that call's status,
\* and when create or update failed no append call was made and the session
\* builder holds the providers it held before.
C10_FailureStopsRegister ==
    op = "register" =>
        LET order == <<"CreateCUDAProviderOptions", "UpdateCUDAProviderOptions",
                       "SessionOptionsAppendExecutionProvider_CUDA_V2">>
        IN  /\ \A i \in StatusCalls : i <= 3 /\ log[i].call = order[i]
            /\ \A i \in StatusCalls, j \in StatusCalls :
                  i < j => log[i].status = OK
            /\ \A i \in Failed : result = Err(log[i].status)
            /\ Failed = {} => result.kind = "Ok"
            /\ (\E i \in Failed : i <= 2) =>
                  /\ Calls("SessionOptionsAppendExecutionProvider_CUDA_V2") = {}
                  /\ session = session_in

C10_Witness ==
    /\ op = "register"
    /\ \E i \in Calls("UpdateCUDAProviderOptions") :
          log[i].status = "ORT_INVALID_ARGUMENT"
    /\ result = Err("ORT_INVALID_ARGUMENT")
    /\ options # <<>>

\* C1: a par_for that returns Ok has run the work closure exactly once on
\* every index below total and on no other index, whatever max_num_batches
\* is and however the batches interleave; no index is ever run twice, and
\* with total = 0 the closure is never run.
C1_EachIndexOnce ==
    /\ \A i \in DOMAIN pf.work : pf.work[i] <= 1
    /\ (op = "par_for" /\ pf.pc = "returned" /\ result.kind = "Ok") =>
          \A i \in DOMAIN pf.work :
              pf.work[i] = IF i < pf.total THEN 1 ELSE 0

C1_Witness ==
    /\ op = "par_for"
    /\ pf.pc = "returned"
    /\ result.kind = "Ok"
    /\ pf.total >= 2
    /\ pf.cuts # {}

\* C2: a borrowed handle is never handed to ReleaseKernelInfo; an owned
\* handle is handed to it exactly once, by its own drop and not before;
\* every handle clone makes is owned; no handle changes its release mode
\* after it is made; and no operation but drop releases anything.
C2_ReleaseDiscipline ==
    /\ \A i \in 1..Len(handles) :
          /\ handles[i].should_release = handles[i].mode0
          /\ handles[i].made_by = "clone" => handles[i].should_release
          /\ ~handles[i].should_release => handles[i].releases = 0
          /\ handles[i].should_release =>
                handles[i].releases = IF handles[i].live THEN 0 ELSE 1
    /\ op # "drop" => Calls("ReleaseKernelInfo") = {}

C2_Witness ==
    \E i \in 1..Len(handles), j \in 1..Len(handles) :
        /\ ~handles[i].should_release /\ ~handles[i].live
        /\ handles[j].made_by = "clone" /\ ~handles[j].live
        /\ handles[j].releases = 1

C4Ops ==
    { "get", "inputs", "outputs", "constant_input", "node_name",
      "KernelAttributes::allocator", "clone", "input", "output", "num_inputs",
      "num_outputs", "KernelContext::allocator", "get_resource", "par_for",
      "compute_stream", "register" }

\* No status call follows a failed one: nothing is retried or carried on.
StopsAtFailure ==
    /\ Cardinality(Failed) <= 1
    /\ \A i \in Failed : \A j \in StatusCalls : j <= i

\* C4 as claimed: in each of the listed operations a failed native call
\* comes back to the caller as the error wrapping its status, and no status
\* call follows it.
C4_EveryFailureIsAnError ==
    (op \in C4Ops /\ Failed # {}) =>
        /\ StopsAtFailure
        /\ \A i \in Failed : result.kind = "Err" /\ result.value = log[i].status

\* C4 as amended: in each of the listed operations no status call follows a
\* failed one and the caller never gets a success value; the failure comes
\* back as the error wrapping its status, except that KernelAttributes::get
\* answers None and clone panics.
C4_FailureNeverSucceeds ==
    (op \in C4Ops /\ Failed # {}) =>
        /\ StopsAtFailure
        /\ \A i \in Failed :
              CASE op = "get" -> result.kind = "None"
                [] op = "clone" -> result.kind = "Panic"
                [] OTHER -> result.kind = "Err" /\ result.value = log[i].status

C4_Witness ==
    /\ op = "inputs"
    /\ Len(log) >= 3
    /\ Failed = { Len(log) }
    /\ result = Err("ORT_FAIL")

VarLenCalls ==
    { "KernelInfoGetAttribute_string", "KernelInfoGetAttributeArray_float",
      "KernelInfoGetAttributeArray_int64" }

\* The size the first call of the two-phase query reported.
ReportedSize ==
    IF log[1].call = "KernelInfoGetAttribute_string" THEN Len(env.buf) ELSE env.size

\* C5: from_info of String, Vec<f32> and Vec<i64> asks for the size with a
\* null buffer, then, the first call having succeeded, makes exactly one
\* more call with a buffer of that size; when the size is 0 and the second
\* call succeeds the result is Ok and empty.
C5_TwoPhaseToleratesZero ==
    (op = "from_info" /\ log[1].call \in VarLenCalls) =>
        /\ log[1].args[2] = "null"
        /\ log[1].status = OK =>
              /\ Len(log) = 2
              /\ log[2].call = log[1].call
              /\ log[2].args[2] = "buffer"
              /\ log[2].args[3] = ReportedSize
        /\ (Failed = {} /\ ReportedSize = 0) =>
              /\ result.kind = "Ok"
              /\ Len(result.value) = 0

\* C6: when ReadOpAttr succeeds and writes back a byte length other than
\* the one it was asked for, from_op_attr fails its assertion and returns
\* no value.
C6_LengthMismatchAsserts ==
    (op = "from_op_attr" /\ Failed = {} /\ env.ret # log[1].args[3]) =>
        result.kind = "Panic"

\* C9: | on CUDAAttentionBackend is commutative and idempotent on every
\* pair of combinations of the named flags, none() included.
C9_BitOrCommutativeIdempotent ==
    /\ bitor(fa, fb) = bitor(fb, fa)
    /\ bitor(bitor(fa, fb), fb) = bitor(fa, fb)

C9_Witness ==
    /\ fa = bitor(FLASH_ATTENTION, EFFICIENT_ATTENTION)
    /\ fb = bitor(EFFICIENT_ATTENTION, LEAN_ATTENTION)

\* C11: in a build without the cuda and load-dynamic features register
\* returns MissingFeature whatever the options, the session builder and the
\* native runtime are, makes no native call and leaves the session builder
\* as it was; in a build with the feature register never returns
\* MissingFeature.
C11_MissingFeatureWithoutCalls ==
    op = "register" =>
        /\ ~backend => /\ result = MissingFeature
                       /\ log = <<>>
                       /\ session = session_in
        /\ backend => result # MissingFeature

C11_Witness ==
    /\ op = "register"
    /\ ~backend
    /\ Len(options) >= 2
    /\ env.fail_at = 2
    /\ result = MissingFeature

\* The closure has run on some index in this step.
WorkRuns == \E i \in DOMAIN pf.work : pf'.work[i] > pf.work[i]

\* C12: the work closure runs only between the call of par_for and its
\* return, while the boxed closure behind the user data is alive; the box
\* is alive for as long as the native call runs and is dropped when par_for
\* returns, with Ok or with Err; and par_for returns Ok only once every
\* batch is done.
C12_RunsInsideTheCall ==
    /\ [](pf.pc = "native" =>
            op = "par_for" /\ result = NoCall /\ pf.executor = "boxed")
    /\ [](pf.pc = "returned" => op = "par_for" /\ pf.executor = "dropped")
    /\ [](pf.pc = "idle" => pf.work = NoWork)
    /\ [][WorkRuns =>
            /\ pf.pc = "native" /\ pf.executor = "boxed"
            /\ pf'.pc = "native" /\ pf'.executor = "boxed"]_vars
    /\ [][(pf.pc = "native" /\ pf'.pc = "returned" /\ result'.kind = "Ok") =>
            pf.dispatched = 0..(pf.total - 1)]_vars

C12_Witness ==
    /\ op = "par_for"
    /\ pf.pc = "native"
    /\ pf.executor = "boxed"
    /\ pf.cuts # {}
    /\ pf.dispatched # {}
    /\ pf.dispatched # 0..(pf.total - 1)

\* The closure has run on some index below total and not on another.
PartlyRun ==
    \E i \in 0..(pf.total - 1), j \in 0..(pf.total - 1) :
        pf.work[i] > 0 /\ pf.work[j] = 0

C14_ViewsOnlyOfHostMemoryFreedOnce ==
    /\ \A i \in 1..Len(scratch) :
          /\ (scratch[i].shared > 0 \/ scratch[i].exclusive) =>
                scratch[i].cpu /\ scratch[i].live /\ scratch[i].frees = 0
          /\ scratch[i].frees = IF scratch[i].live THEN 0 ELSE 1
    /\ op \in { "as_slice", "as_mut_slice" } =>
          (result.kind = "Some" <=> scratch[env.out].cpu)
    /\ op = "scratch_drop" =>
          /\ Len(log) = 1
          /\ log[1].call = "Allocator::free"
          /\ log[1].args = <<scratch[env.out].buffer>>
    /\ op # "scratch_drop" => Calls("Allocator::free") = {}

C14_Witness ==
    /\ op = "as_mut_slice"
    /\ result.kind = "None"
    /\ \E i \in 1..Len(scratch) :
          scratch[i].cpu /\ ~scratch[i].live /\ scratch[i].frees = 1

\* The buffer is not a NUL-terminated UTF-8 string: it has no NUL as its
\* last byte, or a NUL before its last byte, or bytes that are not UTF-8.
Malformed(b) ==
    \/ Len(b) = 0
    \/ b[Len(b)] # 0
    \/ \E i \in 1..(Len(b) - 1) : b[i] = 0
    \/ ~valid_utf8(SubSeq(b, 1, Len(b) - 1), 1)

\* The operation is a String decode whose native calls all succeeded and,
\* in the positional protocol, wrote back the length asked for.
DecodesString ==
    /\ op \in { "from_info", "from_op_attr" }
    /\ Failed = {}
    /\ IF op = "from_info"
       THEN log[1].call = "KernelInfoGetAttribute_string"
       ELSE log[1].args[2] = "ORT_OP_ATTR_STRING" /\ env.ret = log[1].args[3]

\* C15: from_info and from_op_attr of String, given a native buffer with no
\* NUL as its last byte, with a NUL before its last byte, or with bytes
\* that are not UTF-8, return a decode error: they do not panic and do not
\* return a string.
C15_BadStringIsAnError ==
    (DecodesString /\ Malformed(env.buf)) =>
        /\ result.kind = "Err"
        /\ result.value \in { "FromVecWithNulError", "IntoStringError",
                              "invalid string" }

C15_Witness ==
    /\ DecodesString
    /\ op = "from_op_attr"
    /\ Len(env.buf) >= 2
    /\ env.buf[Len(env.buf)] = 0
    /\ \A i \in 1..(Len(env.buf) - 1) : env.buf[i] # 0
    /\ Malformed(env.buf)
    /\ result.kind = "Err"

\* C16: all() already holds every named flag, so that all() | F = all()
\* for each named flag F, LEAN_ATTENTION included; and none() | F = F for
\* every combination F.
C16_AllIsTheUnion ==
    /\ fa \in NamedFlags => bitor(all, fa) = all
    /\ bitor(none, fa) = fa

====
